---- MODULE Spec2Model ----
(***************************************************************************)
(* Gastronomy Heaven API: a read-only HTTP service over a catalog that is  *)
(* loaded once from data.json (database.js) and queried through Express    *)
(* route handlers (the server file).                                       *)
(*                                                                         *)
(* Strings that the code inspects character by character (route segments,  *)
(* query values, product names, categories) are sequences of one-character *)
(* strings.  JavaScript numbers are exact rationals [num, den] with        *)
(* den > 0; den = 0 encodes the non-finite values: NaN is 0/0, +Infinity   *)
(* is 1/0 and -Infinity is -1/0.  Binary rounding of doubles is not        *)
(* modelled.                                                               *)
(***************************************************************************)
EXTENDS Integers, Sequences, FiniteSets, TLC

VARIABLES document, products, categories, restaurantInfo, exchange

vars == <<document, products, categories, restaurantInfo, exchange>>

(***************************************************************************)
(* Bounds of the model.                                                    *)
(***************************************************************************)
\* longest catalog drawn from the product pool
MaxProducts == 7
\* catalogs start at offsets 0..MaxShift of the (cyclic) product pool
MaxShift == 1
\* identifiers -1..MaxId are requested by their decimal text
MaxId == 10

(***************************************************************************)
(* JavaScript built-ins used by the handlers.                              *)
(***************************************************************************)
UpperChars == <<"A","B","C","D","E","F","G","H","I","J","K","L","M",
                "N","O","P","Q","R","S","T","U","V","W","X","Y","Z">>
LowerChars == <<"a","b","c","d","e","f","g","h","i","j","k","l","m",
                "n","o","p","q","r","s","t","u","v","w","x","y","z">>
DigitChars == <<"0","1","2","3","4","5","6","7","8","9">>

IndexOf(table, c) == CHOOSE i \in 1..Len(table) : table[i] = c
IsIn(table, c) == \E i \in 1..Len(table) : table[i] = c

Range(table) == {table[i] : i \in 1..Len(table)}

\* the lower-case letter of each upper-case letter
LowerOf == [c \in Range(UpperChars) |-> LowerChars[IndexOf(UpperChars, c)]]

LowerChar(c) == IF c \in DOMAIN LowerOf THEN LowerOf[c] ELSE c

\* String.prototype.toLowerCase
ToLowerCase(s) == [i \in 1..Len(s) |-> LowerChar(s[i])]

\* String.prototype.includes
Includes(s, t) == \E i \in 0..(Len(s) - Len(t)) : SubSeq(s, i + 1, i + Len(t)) = t

\* a string is truthy unless it is empty
Truthy(s) == s # <<>>

NaN == [num |-> 0, den |-> 0]
Infinity == [num |-> 1, den |-> 0]
Num(n) == [num |-> n, den |-> 1]
Dec(n, d) == [num |-> n, den |-> d]
IsNaN(x) == x.den = 0 /\ x.num = 0
Neg(x) == [num |-> 0 - x.num, den |-> x.den]

\* x <= y on numbers; every comparison with NaN is false
Leq(x, y) == ~IsNaN(x) /\ ~IsNaN(y) /\ x.num * y.den <= y.num * x.den
Geq(x, y) == Leq(y, x)

RECURSIVE Pow10(_)
Pow10(k) == IF k = 0 THEN 1 ELSE 10 * Pow10(k - 1)

RECURSIVE Gcd(_, _)
Gcd(a, b) == IF b = 0 THEN a ELSE Gcd(b, a % b)

\* x + y on finite numbers, on the least common denominator
Add(x, y) ==
  LET l == (x.den * y.den) \div Gcd(x.den, y.den)
  IN  [num |-> x.num * (l \div x.den) + y.num * (l \div y.den), den |-> l]

\* x / n for a finite number x and an integer n >= 0 (0 / 0 is NaN)
DivInt(x, n) ==
  IF n = 0 THEN (IF x.num = 0 THEN NaN
                 ELSE [num |-> IF x.num > 0 THEN 1 ELSE -1, den |-> 0])
  ELSE [num |-> x.num, den |-> x.den * n]

IsWhite(c) == c = " "
IsDigit(c) == IsIn(DigitChars, c)
DigitVal(c) == IndexOf(DigitChars, c) - 1
IsHexDigit(c) == IsDigit(c) \/ (IsIn(LowerChars, LowerChar(c)) /\ IndexOf(LowerChars, LowerChar(c)) <= 6)
HexVal(c) == IF IsDigit(c) THEN DigitVal(c) ELSE 9 + IndexOf(LowerChars, LowerChar(c))

RECURSIVE TrimStart(_)
TrimStart(s) == IF s # <<>> /\ IsWhite(s[1]) THEN TrimStart(Tail(s)) ELSE s

\* length of the longest prefix of s whose characters satisfy the digit test
RECURSIVE DigitRun(_, _)
DigitRun(s, hex) ==
  IF s # <<>> /\ (IF hex THEN IsHexDigit(s[1]) ELSE IsDigit(s[1]))
  THEN 1 + DigitRun(Tail(s), hex) ELSE 0

\* value of a string of digits in the given radix
RECURSIVE DigitsValue(_, _)
DigitsValue(s, radix) ==
  IF s = <<>> THEN 0
  ELSE DigitsValue(SubSeq(s, 1, Len(s) - 1), radix) * radix
       + (IF radix = 16 THEN HexVal(s[Len(s)]) ELSE DigitVal(s[Len(s)]))

HasSign(s) == s # <<>> /\ s[1] \in {"+", "-"}
Unsigned(s) == IF HasSign(s) THEN Tail(s) ELSE s

\* parseInt(string) without a radix argument
ParseInt(s) ==
  LET t == TrimStart(s)
      negative == t # <<>> /\ t[1] = "-"
      u == Unsigned(t)
      hex == Len(u) >= 2 /\ u[1] = "0" /\ u[2] \in {"x", "X"}
      body == IF hex THEN SubSeq(u, 3, Len(u)) ELSE u
      n == DigitRun(body, hex)
      value == DigitsValue(SubSeq(body, 1, n), IF hex THEN 16 ELSE 10)
  IN  IF n = 0 THEN NaN
      ELSE Num(IF negative THEN 0 - value ELSE value)

InfinityText == <<"I","n","f","i","n","i","t","y">>

\* parseFloat(string): the longest prefix that is a decimal literal
ParseFloat(s) ==
  LET t == TrimStart(s)
      negative == t # <<>> /\ t[1] = "-"
      u == Unsigned(t)
      ni == DigitRun(u, FALSE)
      afterInt == SubSeq(u, ni + 1, Len(u))
      hasDot == afterInt # <<>> /\ afterInt[1] = "."
      fracSrc == IF hasDot THEN Tail(afterInt) ELSE <<>>
      nf == DigitRun(fracSrc, FALSE)
      afterFrac == IF hasDot THEN SubSeq(fracSrc, nf + 1, Len(fracSrc)) ELSE afterInt
      hasE == afterFrac # <<>> /\ afterFrac[1] \in {"e", "E"}
      expSrc == IF hasE THEN Tail(afterFrac) ELSE <<>>
      expNeg == expSrc # <<>> /\ expSrc[1] = "-"
      expDigits == Unsigned(expSrc)
      ne == DigitRun(expDigits, FALSE)
      e == IF ne = 0 THEN 0 ELSE DigitsValue(SubSeq(expDigits, 1, ne), 10)
      mant == DigitsValue(SubSeq(u, 1, ni), 10) * Pow10(nf)
              + DigitsValue(SubSeq(fracSrc, 1, nf), 10)
      value == IF expNeg THEN Dec(mant, Pow10(nf + e))
               ELSE IF e >= nf THEN Num(mant * Pow10(e - nf))
               ELSE Dec(mant, Pow10(nf - e))
      signed(x) == IF negative THEN Neg(x) ELSE x
  IN  IF Len(u) >= 8 /\ SubSeq(u, 1, 8) = InfinityText THEN signed(Infinity)
      ELSE IF ni + nf = 0 THEN NaN
      ELSE signed(value)

\* String(n) for an integer n
RECURSIVE NatToString(_)
NatToString(n) ==
  IF n < 10 THEN <<DigitChars[n + 1]>>
  ELSE NatToString(n \div 10) \o <<DigitChars[(n % 10) + 1]>>

NumberToString(n) == IF n < 0 THEN <<"-">> \o NatToString(0 - n) ELSE NatToString(n)

\* the k low decimal digits of n, zero padded
RECURSIVE PadDigits(_, _)
PadDigits(n, k) == IF k = 0 THEN <<>> ELSE PadDigits(n \div 10, k - 1) \o <<DigitChars[(n % 10) + 1]>>

\* Number.prototype.toFixed(k)
ToFixed(x, k) ==
  IF IsNaN(x) THEN <<"N","a","N">>
  ELSE IF x.den = 0 THEN (IF x.num < 0 THEN <<"-">> ELSE <<>>) \o InfinityText
  ELSE LET a == IF x.num < 0 THEN 0 - x.num ELSE x.num
           n == (2 * a * Pow10(k) + x.den) \div (2 * x.den)
           text == NatToString(n \div Pow10(k))
                   \o (IF k = 0 THEN <<>> ELSE <<".">> \o PadDigits(n % Pow10(k), k))
       IN  IF x.num < 0 THEN <<"-">> \o text ELSE text

\* Array.prototype.slice(0, n)
Slice0(seq, n) == SubSeq(seq, 1, IF Len(seq) < n THEN Len(seq) ELSE n)

\* the comparator (a, b) => b.rating - a.rating is negative: a sorts before b
RatingBefore(a, b) == ~IsNaN(a.rating) /\ ~IsNaN(b.rating)
                      /\ b.rating.num * a.rating.den < a.rating.num * b.rating.den

\* Array.prototype.sort with that comparator; the sort is stable
RECURSIVE InsertByRating(_, _)
InsertByRating(sorted, x) ==
  IF sorted = <<>> THEN <<x>>
  ELSE IF RatingBefore(x, sorted[1]) THEN <<x>> \o sorted
  ELSE <<sorted[1]>> \o InsertByRating(Tail(sorted), x)

RECURSIVE SortByRating(_)
SortByRating(seq) ==
  IF seq = <<>> THEN <<>>
  ELSE InsertByRating(SortByRating(SubSeq(seq, 1, Len(seq) - 1)), seq[Len(seq)])

(***************************************************************************)
(* Text literals of the source and of the catalogs.                        *)
(***************************************************************************)
Api == <<"a","p","i">>
Products == <<"p","r","o","d","u","c","t","s">>
Category == <<"c","a","t","e","g","o","r","y">>
Categories == <<"c","a","t","e","g","o","r","i","e","s">>
Restaurant == <<"r","e","s","t","a","u","r","a","n","t">>
Featured == <<"f","e","a","t","u","r","e","d">>
Stats == <<"s","t","a","t","s">>
Vegetariano == <<"V","e","g","e","t","a","r","i","a","n","o">>

Carnes == <<"C","a","r","n","e","s">>
Postres == <<"P","o","s","t","r","e","s">>
Bebidas == <<"B","e","b","i","d","a","s">>
Sopas == <<"S","o","p","a","s">>
Vegetarian == <<"V","e","g","e","t","a","r","i","a","n">>
Meat == <<"M","e","a","t">>

Product(id, name, description, category, price, available, spicyLevel, rating, reviews, ingredients) ==
  [id |-> id, name |-> name, description |-> description, category |-> category,
   price |-> price, available |-> available, spicyLevel |-> spicyLevel,
   rating |-> rating, reviews |-> reviews, ingredients |-> ingredients]

\* the products the catalogs are drawn from (data.json is not part of the sources)
Pool ==
  << Product(1, <<"T","a","c","o">>, <<"R","i","c","o">>, Carnes, Num(10), TRUE, 2,
             Dec(48, 10), 5, << <<"R","e","s">>, <<"A","j","i">> >>),
     Product(2, <<"S","o","p","a">>, <<"D","e"," ","p","a","p","a">>, Vegetariano, Dec(55, 10), TRUE, 0,
             Dec(45, 10), 3, << <<"P","a","p","a">> >>),
     Product(4, <<"A","r","e","p","a">>, <<"M","a","i","z">>, ToLowerCase(Vegetariano), Dec(725, 100), TRUE, 0,
             Dec(49, 10), 9, << <<"M","a","i","z">>, <<"S","a","l">> >>),
     Product(5, <<"F","l","a","n">>, <<"D","u","l","c","e">>, Postres, Num(4), TRUE, 0,
             Dec(46, 10), 1, << <<"L","e","c","h","e">> >>),
     Product(6, <<"M","o","l","e">>, <<"C","o","n"," ","a","j","i">>, Carnes, Num(15), TRUE, 1,
             Dec(47, 10), 4, << <<"C","a","c","a","o">> >>),
     Product(7, <<"P","a","n">>, <<"T","r","i","g","o">>, Vegetariano, Num(2), FALSE, 0,
             Dec(48, 10), 7, <<>>),
     Product(8, <<"C","a","f","e">>, <<"N","e","g","r","o">>, Bebidas, Num(3), TRUE, 0,
             Num(5), 8, << <<"C","a","f","e">> >>),
     Product(3, <<"A","s","a","d","o">>, <<"B","r","a","s","a">>, Carnes, Num(20), FALSE, 3,
             Dec(42, 10), 2, << <<"R","e","s">> >>) >>

\* the two-product catalog of the documented scenario
Scenario ==
  << Product(1, <<"S","a","l","a","d">>, <<"G","r","e","e","n">>, Vegetarian, Num(10), TRUE, 0,
             Dec(48, 10), 5, <<>>),
     Product(2, <<"S","t","e","a","k">>, <<"B","e","e","f">>, Meat, Num(20), FALSE, 3,
             Dec(42, 10), 2, <<>>) >>

Info == << <<"name", "Gastronomy Heaven">>, <<"hours", "12-22">> >>

Min(a, b) == IF a < b THEN a ELSE b

\* n products of the pool, starting shift places into it and wrapping around
Window(shift, n) ==
  [i \in 1..Min(n, Len(Pool)) |-> Pool[((shift + i - 1) % Len(Pool)) + 1]]

Catalog(ps, cs) == [products |-> ps, categories |-> cs, restaurantInfo |-> Info]

\* what data.json can be: a parsed catalog, an absent file, or text that is not JSON
Documents ==
  { [kind |-> "json", value |-> Catalog(Window(shift, n), <<Vegetariano, Carnes, Sopas, Bebidas>>)] :
      shift \in 0..MaxShift, n \in 0..MaxProducts }
  \cup { [kind |-> "json", value |-> Catalog(Scenario, <<Vegetarian, Meat>>)] }
  \cup { [kind |-> "missing"], [kind |-> "malformed"] }

(***************************************************************************)
(* database.js                                                             *)
(***************************************************************************)
EmptyObject == <<>>

\* loadData: readFileSync and JSON.parse throw on an absent or malformed file
loadData(doc) ==
  IF doc.kind = "json" THEN doc.value
  ELSE [products |-> <<>>, categories |-> <<>>, restaurantInfo |-> EmptyObject]

Init ==
  /\ document \in Documents
  /\ products = loadData(document).products
  /\ categories = loadData(document).categories
  /\ restaurantInfo = loadData(document).restaurantInfo
  /\ exchange = <<>>

(***************************************************************************)
(* Requests.  A request is a GET with a path (its segments) and a parsed   *)
(* query string: a function from the keys present to their text.          *)
(***************************************************************************)
QueryKeys == {"category", "minPrice", "maxPrice", "available", "spicyLevel", "search"}

Supplied(q, k) == k \in DOMAIN q

\* each filter is absent (<<>>) or present with one of a few texts
Absent == <<>>
Present(texts) == {Absent} \cup {<<t>> : t \in texts}

QueryChoices ==
  [category   : Present({<<>>, ToLowerCase(Carnes), <<"V","E","G","E","T","A","R","I","A","N","O">>}),
   minPrice   : Present({<<>>, <<"5",".","5">>, <<"a","b","c">>}),
   maxPrice   : Present({<<>>, <<"1","e","1">>, <<"x","1">>}),
   available  : Present({<<"t","r","u","e">>, <<"f","a","l","s","e">>}),
   spicyLevel : Present({<<>>, <<"1">>}),
   search     : Present({<<>>, <<"R","E","S">>})]

QueryOf(c) == [k \in {j \in QueryKeys : c[j] # Absent} |-> c[k][1]]

Queries == {QueryOf(c) : c \in QueryChoices}

NoQuery == <<>>

IdTexts ==
  {NumberToString(i) : i \in -1..MaxId}
  \cup {<<"9","9","9">>, <<"2","a","b","c">>, <<"a","b","c">>, <<"0","x","3">>, <<"+","4">>,
        <<"1",".","9">>, Featured, Category}

CategoryTexts ==
  {Vegetariano, ToLowerCase(Vegetariano), <<"V","E","G","E","T","A","R","I","A","N","O">>,
   Carnes, ToLowerCase(Carnes), Sopas, Vegetarian, ToLowerCase(Vegetarian),
   <<"V","E","G","E","T","A","R","I","A","N">>, <<"2">>}

Paths ==
  {<<>>, <<Api, Categories>>, <<Api, Restaurant>>, <<Api, Stats>>, <<Api>>, <<Api, Stats, Api>>}
  \cup {<<Api, Products, t>> : t \in IdTexts}
  \cup {<<Api, Products, Category, t>> : t \in CategoryTexts}

Requests ==
  {[path |-> <<Api, Products>>, query |-> q] : q \in Queries}
  \cup {[path |-> p, query |-> NoQuery] : p \in Paths}

(***************************************************************************)
(* Responses: res.status(s).json(body); res.json(body) answers 200.        *)
(***************************************************************************)
Send(req, status, body) ==
  /\ exchange' = <<[request |-> req, response |-> [status |-> status, body |-> body]]>>
  /\ UNCHANGED <<document, products, categories, restaurantInfo>>

\* the response has been written; the server takes the next request
Complete ==
  /\ exchange # <<>>
  /\ exchange' = <<>>
  /\ UNCHANGED <<document, products, categories, restaurantInfo>>

(***************************************************************************)
(* GET /                                                                   *)
(***************************************************************************)
Root(req) ==
  Send(req, 200,
       [message |-> "Bienvenido a Gastronomy Heaven API", version |-> "1.0.0",
        endpoints |-> [products |-> "/api/products", categories |-> "/api/categories",
                       restaurant |-> "/api/restaurant", productById |-> "/api/products/:id",
                       productsByCategory |-> "/api/products/category/:category"]])

(***************************************************************************)
(* GET /api/products                                                       *)
(***************************************************************************)
\* variant: the category is compared as written
SameCategoryExact(p, category) == p.category = category

SameCategory(p, category) == ToLowerCase(p.category) = ToLowerCase(category)

FilterCategory(filteredProducts, q) ==
  IF Supplied(q, "category") /\ Truthy(q["category"])
  THEN SelectSeq(filteredProducts, LAMBDA p : SameCategory(p, q["category"]))
  ELSE filteredProducts

\* variant: a minPrice that is not a number is taken as not applicable
FilterMinPriceLenient(filteredProducts, q) ==
  IF Supplied(q, "minPrice") /\ Truthy(q["minPrice"]) /\ ~IsNaN(ParseFloat(q["minPrice"]))
  THEN SelectSeq(filteredProducts, LAMBDA p : Geq(p.price, ParseFloat(q["minPrice"])))
  ELSE filteredProducts

FilterMinPrice(filteredProducts, q) ==
  IF Supplied(q, "minPrice") /\ Truthy(q["minPrice"])
  THEN SelectSeq(filteredProducts, LAMBDA p : Geq(p.price, ParseFloat(q["minPrice"])))
  ELSE filteredProducts

FilterMaxPrice(filteredProducts, q) ==
  IF Supplied(q, "maxPrice") /\ Truthy(q["maxPrice"])
  THEN SelectSeq(filteredProducts, LAMBDA p : Leq(p.price, ParseFloat(q["maxPrice"])))
  ELSE filteredProducts

FilterAvailable(filteredProducts, q) ==
  IF Supplied(q, "available")
  THEN SelectSeq(filteredProducts, LAMBDA p : p.available = (q["available"] = <<"t","r","u","e">>))
  ELSE filteredProducts

FilterSpicyLevel(filteredProducts, q) ==
  IF Supplied(q, "spicyLevel")
  THEN SelectSeq(filteredProducts, LAMBDA p : Leq(Num(p.spicyLevel), ParseInt(q["spicyLevel"])))
  ELSE filteredProducts

SearchMatches(p, searchTerm) ==
  \/ Includes(ToLowerCase(p.name), searchTerm)
  \/ Includes(ToLowerCase(p.description), searchTerm)
  \/ \E i \in 1..Len(p.ingredients) : Includes(ToLowerCase(p.ingredients[i]), searchTerm)

FilterSearch(filteredProducts, q) ==
  IF Supplied(q, "search") /\ Truthy(q["search"])
  THEN SelectSeq(filteredProducts, LAMBDA p : SearchMatches(p, ToLowerCase(q["search"])))
  ELSE filteredProducts

\* variant: the maxPrice filter starts again from the whole catalog
FilteredProductsRestarting(ps, q) ==
  LET upToMinPrice == FilterMinPrice(FilterCategory(ps, q), q)
      upToMaxPrice == IF Supplied(q, "maxPrice") /\ Truthy(q["maxPrice"])
                      THEN FilterMaxPrice(ps, q) ELSE upToMinPrice
  IN  FilterSearch(FilterSpicyLevel(FilterAvailable(upToMaxPrice, q), q), q)

\* the filters of the handler, applied one after the other to a copy of ps
FilteredProducts(ps, q) ==
  FilterSearch(FilterSpicyLevel(FilterAvailable(FilterMaxPrice(FilterMinPrice(
    FilterCategory(ps, q), q), q), q), q), q)

ListProducts(req) ==
  LET filteredProducts == FilteredProducts(products, req.query)
  IN  Send(req, 200, [success |-> TRUE, count |-> Len(filteredProducts), data |-> filteredProducts])

(***************************************************************************)
(* GET /api/products/:id                                                   *)
(***************************************************************************)
\* variant: the identifier is used as an index into the array
FindByIndex(ps, productId) ==
  IF productId.den = 1 /\ productId.num + 1 \in 1..Len(ps) THEN <<ps[productId.num + 1]>> ELSE <<>>

\* Array.prototype.find with p => p.id === productId: <<first match>> or <<>>
FindById(ps, productId) ==
  LET hits == SelectSeq(ps, LAMBDA p : productId.den = 1 /\ p.id = productId.num)
  IN  IF hits = <<>> THEN <<>> ELSE <<hits[1]>>

GetProductById(req) ==
  LET productId == ParseInt(req.path[3])
      product == FindById(products, productId)
  IN  IF product = <<>>
      THEN Send(req, 404, [success |-> FALSE, message |-> "Producto no encontrado"])
      ELSE Send(req, 200, [success |-> TRUE, data |-> product[1]])

(***************************************************************************)
(* GET /api/products/category/:category                                    *)
(***************************************************************************)
CategoryProducts(ps, category) == SelectSeq(ps, LAMBDA p : SameCategory(p, category))

\* what the handler answers for a category name
CategoryResponse(ps, category) ==
  LET categoryProducts == CategoryProducts(ps, category)
  IN  IF Len(categoryProducts) = 0
      THEN [status |-> 404,
            body |-> [success |-> FALSE,
                      message |-> "No se encontraron productos en esta categoria"]]
      ELSE [status |-> 200,
            body |-> [success |-> TRUE, category |-> category,
                      count |-> Len(categoryProducts), data |-> categoryProducts]]

ListProductsByCategory(req) ==
  LET answer == CategoryResponse(products, req.path[4])
  IN  Send(req, answer.status, answer.body)

(***************************************************************************)
(* GET /api/categories                                                     *)
(***************************************************************************)
\* variant: the count compares categories without regard to case
CategoriesWithCountAnyCase(cs, ps) ==
  [i \in 1..Len(cs) |->
     [name |-> cs[i], count |-> Len(SelectSeq(ps, LAMBDA p : SameCategory(p, cs[i])))]]

CategoriesWithCount(cs, ps) ==
  [i \in 1..Len(cs) |->
     [name |-> cs[i], count |-> Len(SelectSeq(ps, LAMBDA p : p.category = cs[i]))]]

ListCategories(req) ==
  Send(req, 200, [success |-> TRUE, data |-> CategoriesWithCount(categories, products)])

(***************************************************************************)
(* GET /api/restaurant                                                     *)
(***************************************************************************)
GetRestaurantInfo(req) ==
  Send(req, 200, [success |-> TRUE, data |-> restaurantInfo])

(***************************************************************************)
(* GET /api/products/featured                                              *)
(***************************************************************************)
\* variant: the six are cut before they are sorted
FeaturedProductsCutFirst(ps) ==
  SortByRating(Slice0(SelectSeq(ps, LAMBDA p : Geq(p.rating, Dec(45, 10))), 6))

FeaturedProducts(ps) ==
  Slice0(SortByRating(SelectSeq(ps, LAMBDA p : Geq(p.rating, Dec(45, 10)))), 6)

\* variant: the catalog itself is sorted, before it is filtered
GetFeaturedProductsInPlace(req) ==
  LET sorted == SortByRating(products)
      featuredProducts == Slice0(SelectSeq(sorted, LAMBDA p : Geq(p.rating, Dec(45, 10))), 6)
  IN  /\ exchange' = <<[request |-> req,
                        response |-> [status |-> 200,
                                      body |-> [success |-> TRUE, count |-> Len(featuredProducts),
                                                data |-> featuredProducts]]]>>
      /\ products' = sorted
      /\ UNCHANGED <<document, categories, restaurantInfo>>

GetFeaturedProducts(req) ==
  LET featuredProducts == FeaturedProducts(products)
  IN  Send(req, 200, [success |-> TRUE, count |-> Len(featuredProducts), data |-> featuredProducts])

(***************************************************************************)
(* GET /api/stats                                                          *)
(***************************************************************************)
\* Array.prototype.reduce((sum, product) => sum + f(product), 0)
RECURSIVE SumNumbers(_, _)
SumNumbers(ps, field) ==
  IF ps = <<>> THEN Num(0)
  ELSE Add(SumNumbers(SubSeq(ps, 1, Len(ps) - 1), field), ps[Len(ps)][field])

RECURSIVE SumReviews(_)
SumReviews(ps) ==
  IF ps = <<>> THEN 0 ELSE SumReviews(SubSeq(ps, 1, Len(ps) - 1)) + ps[Len(ps)].reviews

\* variant: vegetarianOptions compares the category without regard to case
StatsOfAnyCase(ps, cs) ==
  [totalProducts |-> Len(ps),
   totalCategories |-> Len(cs),
   averagePrice |-> ToFixed(DivInt(SumNumbers(ps, "price"), Len(ps)), 2),
   averageRating |-> ToFixed(DivInt(SumNumbers(ps, "rating"), Len(ps)), 1),
   totalReviews |-> SumReviews(ps),
   availableProducts |-> Len(SelectSeq(ps, LAMBDA p : p.available)),
   vegetarianOptions |-> Len(SelectSeq(ps, LAMBDA p : SameCategory(p, Vegetariano))),
   spicyOptions |-> Len(SelectSeq(ps, LAMBDA p : p.spicyLevel > 0))]

StatsOf(ps, cs) ==
  [totalProducts |-> Len(ps),
   totalCategories |-> Len(cs),
   averagePrice |-> ToFixed(DivInt(SumNumbers(ps, "price"), Len(ps)), 2),
   averageRating |-> ToFixed(DivInt(SumNumbers(ps, "rating"), Len(ps)), 1),
   totalReviews |-> SumReviews(ps),
   availableProducts |-> Len(SelectSeq(ps, LAMBDA p : p.available)),
   vegetarianOptions |-> Len(SelectSeq(ps, LAMBDA p : p.category = Vegetariano)),
   spicyOptions |-> Len(SelectSeq(ps, LAMBDA p : p.spicyLevel > 0))]

GetStats(req) ==
  Send(req, 200, [success |-> TRUE, data |-> StatsOf(products, categories)])

(***************************************************************************)
(* Routing.  Express tries the routes in the order of their registration;  *)
(* a literal segment matches without regard to case, a parameter matches   *)
(* any one segment.  A GET that no route matches gets Express's own 404.   *)
(***************************************************************************)
Lit(text) == [param |-> FALSE, text |-> text]
Par(name) == [param |-> TRUE, text |-> name]

RootRoute == <<>>
ProductsRoute == <<Lit(Api), Lit(Products)>>
ProductByIdRoute == <<Lit(Api), Lit(Products), Par(<<"i","d">>)>>
ProductsByCategoryRoute == <<Lit(Api), Lit(Products), Lit(Category), Par(Category)>>
CategoriesRoute == <<Lit(Api), Lit(Categories)>>
RestaurantRoute == <<Lit(Api), Lit(Restaurant)>>
FeaturedRoute == <<Lit(Api), Lit(Products), Lit(Featured)>>
StatsRoute == <<Lit(Api), Lit(Stats)>>

Matches(route, path) ==
  /\ Len(route) = Len(path)
  /\ \A i \in 1..Len(route) :
       IF route[i].param THEN path[i] # <<>>
       ELSE ToLowerCase(path[i]) = ToLowerCase(route[i].text)

NoRoute(req) == Send(req, 404, [html |-> "Cannot GET"])

\* the first registered route that matches handles the request
Dispatch(req) ==
  IF Matches(RootRoute, req.path) THEN Root(req)
  ELSE IF Matches(ProductsRoute, req.path) THEN ListProducts(req)
  ELSE IF Matches(ProductByIdRoute, req.path) THEN GetProductById(req)
  ELSE IF Matches(ProductsByCategoryRoute, req.path) THEN ListProductsByCategory(req)
  ELSE IF Matches(CategoriesRoute, req.path) THEN ListCategories(req)
  ELSE IF Matches(RestaurantRoute, req.path) THEN GetRestaurantInfo(req)
  ELSE IF Matches(FeaturedRoute, req.path) THEN GetFeaturedProducts(req)
  ELSE IF Matches(StatsRoute, req.path) THEN GetStats(req)
  ELSE NoRoute(req)

Serve == exchange = <<>> /\ \E req \in Requests : Dispatch(req)

Next == Serve \/ Complete

\* the server: requests are routed in registration order
Spec == Init /\ [][Next]_vars

(***************************************************************************)
(* The handlers on their own: every handler is applied to every request    *)
(* that its route pattern accepts, whatever the other routes are.          *)
(***************************************************************************)
Accepting(route) == {req \in Requests : Matches(route, req.path)}

Routes == {RootRoute, ProductsRoute, ProductByIdRoute, ProductsByCategoryRoute,
           CategoriesRoute, RestaurantRoute, FeaturedRoute, StatsRoute}

CallRoot == exchange = <<>> /\ \E req \in Accepting(RootRoute) : Root(req)
CallListProducts == exchange = <<>> /\ \E req \in Accepting(ProductsRoute) : ListProducts(req)
CallGetProductById == exchange = <<>> /\ \E req \in Accepting(ProductByIdRoute) : GetProductById(req)
CallListProductsByCategory ==
  exchange = <<>> /\ \E req \in Accepting(ProductsByCategoryRoute) : ListProductsByCategory(req)
CallListCategories == exchange = <<>> /\ \E req \in Accepting(CategoriesRoute) : ListCategories(req)
CallGetRestaurantInfo == exchange = <<>> /\ \E req \in Accepting(RestaurantRoute) : GetRestaurantInfo(req)
CallGetFeaturedProducts ==
  exchange = <<>> /\ \E req \in Accepting(FeaturedRoute) : GetFeaturedProducts(req)
CallGetStats == exchange = <<>> /\ \E req \in Accepting(StatsRoute) : GetStats(req)
CallNoRoute ==
  exchange = <<>> /\ \E req \in Requests : (\A route \in Routes : ~Matches(route, req.path)) /\ NoRoute(req)

NextHandlers ==
  \/ CallRoot
  \/ CallListProducts
  \/ CallGetProductById
  \/ CallListProductsByCategory
  \/ CallListCategories
  \/ CallGetRestaurantInfo
  \/ CallGetFeaturedProducts
  \/ CallGetStats
  \/ CallNoRoute
  \/ Complete

SpecHandlers == Init /\ [][NextHandlers]_vars

(***************************************************************************)
(* Properties.                                                             *)
(***************************************************************************)
Answered == exchange # <<>>
Req == exchange[1].request
Res == exchange[1].response

ProductsPath == <<Api, Products>>
FeaturedPath == <<Api, Products, Featured>>
CategoriesPath == <<Api, Categories>>
RestaurantPath == <<Api, Restaurant>>
StatsPath == <<Api, Stats>>

Elements(seq) == {seq[i] : i \in 1..Len(seq)}
Carriers(i) == {k \in 1..Len(products) : products[k].id = i}
IsListBody(body) == DOMAIN body = {"success", "count", "data"}

\* C1: a GET of /api/products/featured is answered by the featured-products
\* operation: success = true with {count, data}, and never a not-found signal.
C1_FeaturedIsServed ==
  (Answered /\ Req.path = FeaturedPath) =>
    /\ Res.status = 200
    /\ IsListBody(Res.body)
    /\ Res.body.success = TRUE
    /\ Res.body.data = FeaturedProducts(products)
    /\ Res.body.count = Len(Res.body.data)

\* C2: asking for the identifier of a product answers that very product, and
\* asking for an integer that no product carries answers 404 with
\* success = false, never a 500.
C2_LookupById ==
  Answered =>
    \A i \in (-1..MaxId) \cup {999} :
      Req.path = <<Api, Products, NumberToString(i)>> =>
        IF Carriers(i) # {}
        THEN \A k \in Carriers(i) :
               Res = [status |-> 200, body |-> [success |-> TRUE, data |-> products[k]]]
        ELSE Res.status = 404 /\ Res.body.success = FALSE

\* C2 happens: a product that does not sit at the index its identifier names is found
C2_Witness ==
  /\ Answered
  /\ Res.status = 200
  /\ \E k \in 1..Len(products) :
       /\ Req.path = <<Api, Products, NumberToString(products[k].id)>>
       /\ products[k].id # k - 1
       /\ products[k].id < Len(products)
       /\ Res.body.data = products[k]

\* the answer to the query that supplies filter k of q and nothing else
Alone(q, k) == FilteredProducts(products, [j \in {k} |-> q[k]])

\* C3: the data of listProducts is the catalog, in catalog order, restricted to
\* the products that every supplied filter returns when it is applied alone;
\* without filters it is the whole catalog; count is the length of data.
C3_FiltersIntersect ==
  (Answered /\ Req.path = ProductsPath) =>
    LET q == Req.query
    IN  /\ Res.status = 200
        /\ Res.body.success = TRUE
        /\ Res.body.data =
             SelectSeq(products, LAMBDA p : \A k \in DOMAIN q : p \in Elements(Alone(q, k)))
        /\ Res.body.count = Len(Res.body.data)
        /\ (DOMAIN q = {} => Res.body.data = products)

\* C3 happens: three or more filters, each of which alone returns more than
\* their combination, which still returns something
C3_Witness ==
  /\ Answered
  /\ Req.path = ProductsPath
  /\ Cardinality(DOMAIN Req.query) >= 3
  /\ Res.body.data # <<>>
  /\ \A k \in DOMAIN Req.query : Len(Alone(Req.query, k)) > Len(Res.body.data)

Higher(x, y) == ~IsNaN(x) /\ ~IsNaN(y) /\ x.num * y.den > y.num * x.den

\* C4: the featured-products operation returns at most 6 products of the
\* catalog, each rated 4.5 or more, in non-increasing order of rating, leaving
\* out no product rated strictly higher than a returned one; count is their number.
C4_FeaturedRanking ==
  (Answered /\ Req.path = FeaturedPath /\ Res.status = 200) =>
    LET data == Res.body.data
    IN  /\ Len(data) <= 6
        /\ Elements(data) \subseteq Elements(products)
        /\ \A i \in 1..Len(data) : Geq(data[i].rating, Dec(45, 10))
        /\ \A i \in 1..Len(data) : \A j \in i..Len(data) : Geq(data[i].rating, data[j].rating)
        /\ \A k \in 1..Len(products) : \A i \in 1..Len(data) :
             Higher(products[k].rating, data[i].rating) => products[k] \in Elements(data)
        /\ Res.body.count = Len(data)

\* C4 happens: more than 6 products qualify, and the best rated one is not
\* among the first six of the catalog
C4_Witness ==
  /\ Answered
  /\ Req.path = FeaturedPath
  /\ Res.status = 200
  /\ Len(Res.body.data) = 6
  /\ Len(SelectSeq(products, LAMBDA p : Geq(p.rating, Dec(45, 10)))) > 6
  /\ Res.body.data[1] \notin Elements(SubSeq(products, 1, 6))

CountCategory(name) == Cardinality({k \in 1..Len(products) : products[k].category = name})

\* C5 as stated: vegetarianOptions counts the products whose category is
\* exactly "Vegetarian"; on the two-product scenario catalog it is 1.
C5_CountsVegetarian ==
  (Answered /\ Req.path = StatsPath) =>
    /\ Res.body.data.vegetarianOptions = CountCategory(Vegetarian)
    /\ (products = Scenario => Res.body.data.vegetarianOptions = 1)

\* C5 amended: vegetarianOptions counts the products whose category is exactly
\* "Vegetariano"; on the two-product scenario catalog, whose product 1 has
\* category "Vegetarian", it is 0.
C5_CountsVegetariano ==
  (Answered /\ Req.path = StatsPath) =>
    /\ Res.status = 200
    /\ Res.body.data.vegetarianOptions = CountCategory(Vegetariano)
    /\ (products = Scenario => Res.body.data.vegetarianOptions = 0)

\* C5 happens: statistics of a catalog that has a "Vegetariano" product and a
\* "vegetariano" one, of which only the first is counted
C5_Witness ==
  /\ Answered
  /\ Req.path = StatsPath
  /\ Res.body.data.vegetarianOptions > 0
  /\ \E k \in 1..Len(products) : products[k].category = ToLowerCase(Vegetariano)
  /\ Res.body.data.vegetarianOptions < Len(CategoryProducts(products, Vegetariano))

LoadFailed == document.kind # "json"

\* C6: when data.json is unreadable or is not JSON the loader yields empty
\* collections and every query is answered without a 500: the list operations
\* (products, featured, categories) with empty data, restaurant info with {},
\* statistics with success, the lookups by id and by category with not-found.
C6_FailOpen ==
  LoadFailed =>
    /\ products = <<>> /\ categories = <<>> /\ restaurantInfo = EmptyObject
    /\ Answered =>
         /\ Res.status # 500
         /\ Req.path \in {ProductsPath, FeaturedPath, CategoriesPath} =>
              Res.status = 200 /\ Res.body.success = TRUE /\ Res.body.data = <<>>
         /\ Req.path = RestaurantPath =>
              Res.status = 200 /\ Res.body.success = TRUE /\ Res.body.data = EmptyObject
         /\ Req.path = StatsPath => Res.status = 200 /\ Res.body.success = TRUE
         /\ (\E i \in -1..MaxId : Req.path = <<Api, Products, NumberToString(i)>>) =>
              Res.status = 404 /\ Res.body.success = FALSE
         /\ (Len(Req.path) = 4 /\ SubSeq(Req.path, 1, 3) = <<Api, Products, Category>>) =>
              Res.status = 404 /\ Res.body.success = FALSE

\* C7: the collections stay what the loader produced, whatever was served.
C7_CollectionsImmutable ==
  /\ products = loadData(document).products
  /\ categories = loadData(document).categories
  /\ restaurantInfo = loadData(document).restaurantInfo

\* C7 happens: the featured handler has answered with products in another
\* order than the catalog's
C7_Witness ==
  /\ Answered
  /\ Req.path = FeaturedPath
  /\ Res.status = 200
  /\ Len(Res.body.data) > 1
  /\ Res.body.data # Slice0(SelectSeq(products, LAMBDA p : Geq(p.rating, Dec(45, 10))), 6)

IsLetter(c) == c \in Elements(UpperChars) \cup Elements(LowerChars)
Flip(c) ==
  IF c \in Elements(UpperChars) THEN LowerChars[IndexOf(UpperChars, c)]
  ELSE IF c \in Elements(LowerChars) THEN UpperChars[IndexOf(LowerChars, c)]
  ELSE c

\* two names that differ, and only in the case of letters
DifferOnlyInCase(a, b) ==
  /\ a # b
  /\ Len(a) = Len(b)
  /\ \A i \in 1..Len(a) : a[i] = b[i] \/ (IsLetter(a[i]) /\ b[i] = Flip(a[i]))

IsCategoryRequest == Len(Req.path) = 4 /\ SubSeq(Req.path, 1, 3) = <<Api, Products, Category>>

\* C8 as stated: two category names that differ only in case get identical
\* answers, the category field included.
C8_IdenticalAnswers ==
  (Answered /\ IsCategoryRequest) =>
    \A other \in CategoryTexts :
      DifferOnlyInCase(Req.path[4], other) => Res = CategoryResponse(products, other)

\* C8 amended: two category names that differ only in case get the same
\* outcome and, on success, the same count and data; the category field
\* repeats the name as it was given, so it differs between the two.
C8_SameOutcomeCountData ==
  (Answered /\ IsCategoryRequest) =>
    \A other \in CategoryTexts :
      DifferOnlyInCase(Req.path[4], other) =>
        LET twin == CategoryResponse(products, other)
        IN  /\ Res.status = twin.status
            /\ Res.body.success = twin.body.success
            /\ Res.status \in {200, 404}
            /\ Res.status = 200 =>
                 /\ Res.body.count = twin.body.count
                 /\ Res.body.data = twin.body.data
                 /\ Res.body.category = Req.path[4]
                 /\ twin.body.category = other
                 /\ Res.body.category # twin.body.category

\* C8 happens: an upper-case name has found products whose category is not
\* written that way
C8_Witness ==
  /\ Answered
  /\ IsCategoryRequest
  /\ Res.status = 200
  /\ Req.path[4] = <<"V","E","G","E","T","A","R","I","A","N","O">>
  /\ \E other \in CategoryTexts : DifferOnlyInCase(Req.path[4], other)
  /\ \A i \in 1..Len(Res.body.data) : Res.body.data[i].category # Req.path[4]

\* C9: listCategories answers one {name, count} per listed category, in list
\* order, counting the products whose category is exactly that name; a product
\* whose category differs from a listed name only in case is not counted for
\* it, though both case-insensitive category filters return it.
C9_CategoryCounts ==
  (Answered /\ Req.path = CategoriesPath) =>
    /\ Res.status = 200
    /\ Res.body.success = TRUE
    /\ Len(Res.body.data) = Len(categories)
    /\ \A i \in 1..Len(categories) :
         /\ Res.body.data[i] = [name |-> categories[i], count |-> CountCategory(categories[i])]
         /\ \A k \in 1..Len(products) :
              DifferOnlyInCase(products[k].category, categories[i]) =>
                /\ Res.body.data[i].count
                     <= Cardinality({j \in 1..Len(products) : j # k /\ products[j].category = categories[i]})
                /\ products[k] \in Elements(CategoryResponse(products, categories[i]).body.data)
                /\ products[k] \in Elements(FilteredProducts(products, [j \in {"category"} |-> categories[i]]))

\* C9 happens: a listed category without products, and a product that the
\* count of "Vegetariano" leaves out although the category route returns it
C9_Witness ==
  /\ Answered
  /\ Req.path = CategoriesPath
  /\ \E i \in 1..Len(Res.body.data) : Res.body.data[i].count = 0
  /\ \E i \in 1..Len(Res.body.data) :
       /\ Res.body.data[i].count > 0
       /\ Res.body.data[i].count < Len(CategoryProducts(products, Res.body.data[i].name))

NoMatches == Res.status = 200 /\ Res.body.success = TRUE /\ Res.body.count = 0 /\ Res.body.data = <<>>

\* C10 as stated: a supplied minPrice, maxPrice or spicyLevel that parses to
\* a non-number, the empty string included, makes listProducts answer no matches.
C10_NonNumberNoMatches ==
  (Answered /\ Req.path = ProductsPath) =>
    LET q == Req.query
    IN  /\ \A k \in {"minPrice", "maxPrice"} \cap DOMAIN q : IsNaN(ParseFloat(q[k])) => NoMatches
        /\ (Supplied(q, "spicyLevel") /\ IsNaN(ParseInt(q["spicyLevel"]))) => NoMatches

Without(q, k) == [j \in DOMAIN q \ {k} |-> q[j]]

\* C10 amended: a supplied non-empty minPrice or maxPrice that parses to a
\* non-number, and a supplied spicyLevel that parses to a non-number (the empty
\* string included), makes listProducts answer no matches; an empty minPrice or
\* maxPrice is ignored, as if it had not been supplied.
C10_NonEmptyNonNumberNoMatches ==
  (Answered /\ Req.path = ProductsPath) =>
    LET q == Req.query
    IN  /\ \A k \in {"minPrice", "maxPrice"} \cap DOMAIN q :
             /\ (q[k] # <<>> /\ IsNaN(ParseFloat(q[k]))) => NoMatches
             /\ q[k] = <<>> => Res.body.data = FilteredProducts(products, Without(q, k))
        /\ (Supplied(q, "spicyLevel") /\ IsNaN(ParseInt(q["spicyLevel"]))) => NoMatches

\* C10 happens: a non-numeric minPrice alone has emptied a catalog of products
C10_Witness ==
  /\ Answered
  /\ Req.path = ProductsPath
  /\ DOMAIN Req.query = {"minPrice"}
  /\ Req.query["minPrice"] = <<"a","b","c">>
  /\ products # <<>>
  /\ Res.body.data = <<>>

====
